---- MODULE Spec2Model ----
(***************************************************************************)
(* A model of src/deadlink.py: AccurateLinkChecker, a site-scoped          *)
(* dead-link crawler.  A fixed pool of worker threads drains one shared    *)
(* task queue, guarded by one lock; run() polls the queue and joins the    *)
(* pool.                                                                   *)
(*                                                                         *)
(* Strings are sequences of one-character strings, so that the URL         *)
(* functions (urlsplit, urlunsplit, unquote, quote, lower, rstrip) are     *)
(* computed character by character as the Python library computes them.   *)
(***************************************************************************)
EXTENDS Integers, Sequences, FiniteSets, TLC

(***************************************************************************)
(* Characters and strings                                                  *)
(***************************************************************************)

\* The printable ASCII characters, code 32 (space) to 126 (~), in code order
\* (the double quote, the backslash and the backtick are written as named
\* tokens).
ASCII ==
  <<
    " ", "!", "DQUOTE", "#", "$", "%", "&", "'", "(", ")", "*", "+", ",", "-", ".", "/",
    "0", "1", "2", "3", "4", "5", "6", "7", "8", "9", ":", ";", "<", "=", ">", "?",
    "@", "A", "B", "C", "D", "E", "F", "G", "H", "I", "J", "K", "L", "M", "N", "O",
    "P", "Q", "R", "S", "T", "U", "V", "W", "X", "Y", "Z", "[", "BACKSLASH", "]", "^", "_",
    "BACKTICK", "a", "b", "c", "d", "e", "f", "g", "h", "i", "j", "k", "l", "m", "n", "o",
    "p", "q", "r", "s", "t", "u", "v", "w", "x", "y", "z", "{", "|", "}", "~"
  >>

\* Python evaluates an argument once, before the call.  Let1(x, F) is F
\* applied to the value of x, and Let2 the same for two arguments, so that
\* an operator that reads its argument several times computes it once.
Let1(x, F(_)) == CHOOSE r \in {F(v) : v \in {x}} : TRUE

Let2(x, y, F(_, _)) == CHOOSE r \in {F(v, w) : v \in {x}, w \in {y}} : TRUE

\* chr() and ord() on the printable ASCII range.
Chr(code) == ASCII[code - 31]

CharCode == [c \in {ASCII[i] : i \in 1..Len(ASCII)} |->
               31 + CHOOSE i \in 1..Len(ASCII) : ASCII[i] = c]

Ord(c) == CharCode[c]

HexDigits == <<"0", "1", "2", "3", "4", "5", "6", "7", "8", "9",
               "A", "B", "C", "D", "E", "F">>

Letters == {Chr(code) : code \in (65..90) \cup (97..122)}

Digits == {Chr(code) : code \in 48..57}

IsAlpha(c) == c \in Letters

IsDigit(c) == c \in Digits

\* str.lower() of each character: the upper-case letters move by 32.
LowerOf == [c \in DOMAIN CharCode |->
              IF CharCode[c] \in 65..90 THEN Chr(CharCode[c] + 32) ELSE c]

LowerChar(c) == LowerOf[c]

\* str.lower()
Lower(s) == Let1(s, LAMBDA v : [i \in 1..Len(v) |-> LowerChar(v[i])])

\* The value of each hexadecimal digit, in either case.
HexValue == [c \in {HexDigits[i] : i \in 1..16} \cup {LowerChar(HexDigits[i]) : i \in 1..16} |->
               (CHOOSE i \in 1..16 : HexDigits[i] = c \/ LowerChar(HexDigits[i]) = c) - 1]

IsHexDigit(c) == c \in DOMAIN HexValue

HexVal(c) == HexValue[c]

\* s[from:] (from is a 0-based Python index)
Drop(s, from) == Let1(s, LAMBDA v : SubSeq(v, from + 1, Len(v)))

\* s[:to]
Take(s, to) ==
  Let2(s, to, LAMBDA v, n : SubSeq(v, 1, IF n < Len(v) THEN n ELSE Len(v)))

\* The least and the greatest member of a set of numbers, or 0 for no member.
Least(S) == Let1(S, LAMBDA T : IF T = {} THEN 0 ELSE CHOOSE i \in T : \A j \in T : i <= j)

Greatest(S) == Let1(S, LAMBDA T : IF T = {} THEN 0 ELSE CHOOSE i \in T : \A j \in T : i >= j)

\* s.find(c, start): the 0-based index of the first c at or after start, or -1.
Find(s, c, start) ==
  Let1(s, LAMBDA v : Least({i \in (start + 1)..Len(v) : v[i] = c}) - 1)

\* s.rfind(c)
RFind(s, c) == Let1(s, LAMBDA v : Greatest({i \in 1..Len(v) : v[i] = c}) - 1)

Contains(s, c) == Find(s, c, 0) >= 0

\* s.partition(c) without the separator: <<before, after>>, or <<s, "">>
\* for a string s that does not contain c.
SplitAt(s, c) ==
  Let1(s, LAMBDA v :
    Let1(Find(v, c, 0), LAMBDA i :
      IF i < 0 THEN <<v, <<>>>> ELSE <<Take(v, i), Drop(v, i + 1)>>))

\* s.split(c): the sequence of the pieces between the occurrences of c.
RECURSIVE SplitAll(_, _)
SplitAll(s, c) ==
  Let1(s, LAMBDA v :
    IF ~Contains(v, c) THEN <<v>>
    ELSE Let1(SplitAt(v, c), LAMBDA p : <<p[1]>> \o SplitAll(p[2], c)))

\* c.join(parts)
RECURSIVE Join(_, _)
Join(parts, c) ==
  Let1(parts, LAMBDA ps :
    IF ps = <<>> THEN <<>>
    ELSE IF Len(ps) = 1 THEN ps[1]
    ELSE ps[1] \o <<c>> \o Join(Tail(ps), c))

\* s.rstrip(c)
RECURSIVE RStrip(_, _)
RStrip(s, c) ==
  Let1(s, LAMBDA v :
    IF v # <<>> /\ v[Len(v)] = c THEN RStrip(SubSeq(v, 1, Len(v) - 1), c) ELSE v)

\* s.lstrip(c)
RECURSIVE LStrip(_, _)
LStrip(s, c) ==
  Let1(s, LAMBDA v : IF v # <<>> /\ v[1] = c THEN LStrip(Tail(v), c) ELSE v)

\* urllib.parse.unquote: every %XX with two hex digits becomes the character
\* of that code; a % not followed by two hex digits stays.  The strings of
\* this model only carry escapes of printable ASCII codes.
RECURSIVE unquote(_)
unquote(s) ==
  Let1(s, LAMBDA v :
    IF v = <<>> THEN <<>>
    ELSE IF /\ v[1] = "%"
            /\ Len(v) >= 3
            /\ IsHexDigit(v[2])
            /\ IsHexDigit(v[3])
            /\ 16 * HexVal(v[2]) + HexVal(v[3]) \in 32..126
         THEN <<Chr(16 * HexVal(v[2]) + HexVal(v[3]))>> \o unquote(Drop(v, 3))
         ELSE <<v[1]>> \o unquote(Tail(v)))

\* The characters quote() never escapes: letters, digits and "_.-~".
AlwaysSafe(c) == IsAlpha(c) \/ IsDigit(c) \/ c \in {"_", ".", "-", "~"}

\* One character as quote() writes it.
QuoteChar(c, safe) ==
  IF AlwaysSafe(c) \/ c \in safe
  THEN <<c>>
  ELSE <<"%", HexDigits[(Ord(c) \div 16) + 1], HexDigits[(Ord(c) % 16) + 1]>>

\* urllib.parse.quote(s, safe): every character outside the always-safe
\* set and outside `safe` becomes %XX, in upper-case hex.
RECURSIVE quote(_, _)
quote(s, safe) ==
  Let1(s, LAMBDA v :
    IF v = <<>> THEN <<>> ELSE QuoteChar(v[1], safe) \o quote(Tail(v), safe))

(***************************************************************************)
(* urllib.parse: urlsplit, urlunsplit, urlparse, urlunparse, urljoin       *)
(***************************************************************************)

Str_http == <<"h", "t", "t", "p">>

Str_https == <<"h", "t", "t", "p", "s">>

\* The schemes of urllib.parse.uses_relative, uses_netloc and uses_params
\* that the strings of this model can carry.
uses_relative == {<<>>, Str_http, Str_https}

uses_netloc == {<<>>, Str_http, Str_https}

uses_params == {<<>>, Str_http, Str_https}

\* scheme_chars: letters, digits and "+-."
IsSchemeChar(c) == IsAlpha(c) \/ IsDigit(c) \/ c \in {"+", "-", "."}

\* The url[:i] of urlsplit is a scheme: i > 0, a letter first, scheme characters only.
HasScheme(url) ==
  Let2(url, Find(url, ":", 0), LAMBDA v, i :
    /\ i > 0
    /\ IsAlpha(v[1])
    /\ \A k \in 1..i : IsSchemeChar(v[k]))

\* The scheme step of urlsplit: <<scheme, rest>>.
SplitScheme(url, default) ==
  Let1(url, LAMBDA v :
    IF HasScheme(v)
    THEN Let1(Find(v, ":", 0), LAMBDA i : <<Lower(Take(v, i)), Drop(v, i + 1)>>)
    ELSE <<default, v>>)

\* _splitnetloc(url, 2): <<netloc, rest>>, the netloc ending at the first of "/?#".
splitnetloc(url) ==
  Let1(url, LAMBDA v :
    Let1({Find(v, c, 2) : c \in {"/", "?", "#"}} \ {-1}, LAMBDA ends :
      Let1(IF ends = {} THEN Len(v) ELSE Least(ends), LAMBDA delim :
        <<SubSeq(v, 3, delim), Drop(v, delim)>>)))

\* The netloc step of urlsplit: <<netloc, rest>>.
SplitNetloc(url) ==
  Let1(url, LAMBDA v :
    IF Take(v, 2) = <<"/", "/">> THEN splitnetloc(v) ELSE <<<<>>, v>>)

\* urlsplit(url, scheme=default): the record of the five components.  The
\* leading spaces of url are stripped first; then the scheme, the netloc,
\* the fragment and the query are split off in this order.
urlsplit_default(url, default) ==
  Let1(SplitScheme(LStrip(url, " "), default), LAMBDA a :
    Let1(SplitNetloc(a[2]), LAMBDA b :
      Let1(SplitAt(b[2], "#"), LAMBDA c :
        Let1(SplitAt(c[1], "?"), LAMBDA d :
          [scheme |-> a[1], netloc |-> b[1], path |-> d[1],
           query |-> d[2], fragment |-> c[2]]))))

urlsplit(url) == urlsplit_default(url, <<>>)

\* urlunsplit((scheme, netloc, path, query, fragment))
urlunsplit(scheme, netloc, path, query, fragment) ==
  Let1([scheme |-> scheme, netloc |-> netloc, path |-> path,
        query |-> query, fragment |-> fragment], LAMBDA p :
    Let1(IF p.netloc # <<>> \/ (p.scheme # <<>> /\ p.scheme \in uses_netloc
                                 /\ Take(p.path, 2) # <<"/", "/">>)
         THEN <<"/", "/">> \o p.netloc
              \o (IF p.path # <<>> /\ p.path[1] # "/" THEN <<"/">> ELSE <<>>)
              \o p.path
         ELSE p.path, LAMBDA u1 :
      (IF p.scheme # <<>> THEN p.scheme \o <<":">> ELSE <<>>)
      \o u1
      \o (IF p.query # <<>> THEN <<"?">> \o p.query ELSE <<>>)
      \o (IF p.fragment # <<>> THEN <<"#">> \o p.fragment ELSE <<>>)))

\* _splitparams(path): <<path, params>>, the params after the ";" of the last segment.
splitparams(path) ==
  Let1(path, LAMBDA v :
    Let1(IF Contains(v, "/") THEN Find(v, ";", RFind(v, "/")) ELSE Find(v, ";", 0),
         LAMBDA i : IF i < 0 THEN <<v, <<>>>> ELSE <<Take(v, i), Drop(v, i + 1)>>))

\* urlparse(url, scheme=default): urlsplit plus the params of the path.
urlparse_default(url, default) ==
  Let1(urlsplit_default(url, default), LAMBDA s :
    Let1(IF s.scheme \in uses_params /\ Contains(s.path, ";")
         THEN splitparams(s.path) ELSE <<s.path, <<>>>>, LAMBDA sp :
      [scheme |-> s.scheme, netloc |-> s.netloc, path |-> sp[1], params |-> sp[2],
       query |-> s.query, fragment |-> s.fragment]))

urlparse(url) == urlparse_default(url, <<>>)

\* urlunparse((scheme, netloc, path, params, query, fragment))
urlunparse(scheme, netloc, path, params, query, fragment) ==
  Let2(path, params, LAMBDA u, ps :
    urlunsplit(scheme, netloc, IF ps # <<>> THEN u \o <<";">> \o ps ELSE u,
               query, fragment))

\* The loop of urljoin over the path segments: ".." pops (an empty stack
\* stays empty), "." is skipped, any other segment is pushed.
RECURSIVE ResolveSegments(_, _)
ResolveSegments(segments, resolved) ==
  Let2(segments, resolved, LAMBDA segs, res :
    IF segs = <<>> THEN res
    ELSE IF segs[1] = <<".", ".">>
         THEN ResolveSegments(Tail(segs),
                              IF res = <<>> THEN <<>> ELSE SubSeq(res, 1, Len(res) - 1))
    ELSE IF segs[1] = <<".">>
         THEN ResolveSegments(Tail(segs), res)
    ELSE ResolveSegments(Tail(segs), Append(res, segs[1])))

\* segments[1:-1] = filter(None, segments[1:-1])
DropEmptyMiddle(segments) ==
  Let1(segments, LAMBDA segs :
    IF Len(segs) <= 2 THEN segs
    ELSE <<segs[1]>>
         \o SelectSeq(SubSeq(segs, 2, Len(segs) - 1), LAMBDA g : g # <<>>)
         \o <<segs[Len(segs)]>>)

\* The last part of urljoin: the path of the reference u resolved against
\* the path of the base b, for a reference that has a path or params.
JoinPaths(b, u, netloc) ==
  Let1(SplitAll(b.path, "/"), LAMBDA bp :
    Let1(IF Take(u.path, 1) = <<"/">>
         THEN SplitAll(u.path, "/")
         ELSE DropEmptyMiddle((IF bp[Len(bp)] # <<>>
                               THEN SubSeq(bp, 1, Len(bp) - 1) ELSE bp)
                              \o SplitAll(u.path, "/")), LAMBDA segments :
      Let1(Join(IF segments[Len(segments)] \in {<<".">>, <<".", ".">>}
                THEN Append(ResolveSegments(segments, <<>>), <<>>)
                ELSE ResolveSegments(segments, <<>>), "/"), LAMBDA joined :
        urlunparse(u.scheme, netloc, IF joined = <<>> THEN <<"/">> ELSE joined,
                   u.params, u.query, u.fragment))))

\* urljoin(base, url)
urljoin(base, url) ==
  Let2(base, url, LAMBDA bs, ur :
    IF bs = <<>> THEN ur
    ELSE IF ur = <<>> THEN bs
    ELSE
      Let1(urlparse(bs), LAMBDA b :
        Let1(urlparse_default(ur, b.scheme), LAMBDA u :
          IF u.scheme # b.scheme \/ u.scheme \notin uses_relative THEN ur
          ELSE IF u.scheme \in uses_netloc /\ u.netloc # <<>>
          THEN urlunparse(u.scheme, u.netloc, u.path, u.params, u.query, u.fragment)
          ELSE
            Let1(IF u.scheme \in uses_netloc THEN b.netloc ELSE u.netloc, LAMBDA netloc :
              IF u.path = <<>> /\ u.params = <<>>
              THEN urlunparse(u.scheme, netloc, b.path, b.params,
                              IF u.query = <<>> THEN b.query ELSE u.query,
                              u.fragment)
              ELSE JoinPaths(b, u, netloc)))))

(***************************************************************************)
(* AccurateLinkChecker: the URL functions                                  *)
(***************************************************************************)

\* normalize_url: split, strip the trailing slashes of the path, drop the
\* fragment, join, then percent-decode and lower-case the whole string.
normalize_url(url) ==
  Let1(urlsplit(url), LAMBDA parsed :
    Lower(unquote(urlunsplit(parsed.scheme, parsed.netloc,
                             RStrip(parsed.path, "/"), parsed.query, <<>>))))

\* encode_special_chars: quote every path segment with no safe character,
\* the query with "=&" safe, and join the six components again.
encode_special_chars(url) ==
  Let1(urlparse(url), LAMBDA parsed :
    Let1(SplitAll(parsed.path, "/"), LAMBDA segs :
      urlunparse(parsed.scheme, parsed.netloc,
                 Join([i \in 1..Len(segs) |-> quote(segs[i], {})], "/"),
                 parsed.params,
                 quote(parsed.query, {"=", "&"}),
                 parsed.fragment)))

\* urlparse(url).netloc.split(':')[0]
NetlocHost(url) == SplitAt(urlparse(url).netloc, ":")[1]

(***************************************************************************)
(* The run: its inputs and bounds                                          *)
(***************************************************************************)

\* max_workers, the size of the thread pool (a constructor argument).
NumWorkers == 2

\* self.retries
retries == 2

\* The number of requests of one run that meet an exception of session.get.
MaxFailures == 1

Workers == 1..NumWorkers

Http == <<"h", "t", "t", "p", ":", "/", "/">>

\* The start_url argument of the constructor: "http://A:8/".
StartUrlArg == Http \o <<"A", ":", "8", "/">>

\* The hrefs a parsed page body may carry, as written in the page: "/",
\* "http://A:8/P/#f" and the cross-host "http://b/x".
RawLinks ==
  { <<"/">>,
    Http \o <<"A", ":", "8", "/", "P", "/", "#", "f">>,
    Http \o <<"b", "/", "x">> }

\* The bodies a fetched page may hold, each as the set of its hrefs: no
\* link, a link to the root alone, and every link of RawLinks.
Bodies == {{}, {<<"/">>}, RawLinks}

\* Where a redirect may end (response.url): the homepage "http://a:8/" and
\* the cross-host "http://b/x".
RedirectTargets ==
  { Http \o <<"a", ":", "8", "/">>,
    Http \o <<"b", "/", "x">> }

\* The final status codes a server answers with.
StatusCodes == {200, 404}

\* response.history of a redirected request, as the statuses of its hops.
RedirectHistories == {<<301>>, <<404>>}

\* str(e) of a requests exception: one fixed message.
ExcMessage == <<"e">>

\* The requests exceptions an attempt of session.get may raise.
RequestErrors == {"SSLError", "Timeout", "TooManyRedirects", "ConnectionError"}

Str_SSL_Error == <<"S", "S", "L", " ", "E", "r", "r", "o", "r">>

Str_Timeout == <<"T", "i", "m", "e", "o", "u", "t">>

Str_TooManyRedirects ==
  <<"T", "o", "o", "M", "a", "n", "y", "R", "e", "d", "i", "r", "e", "c", "t", "s">>

Str_ConnectionError ==
  <<"C", "o", "n", "n", "e", "c", "t", "i", "o", "n", "E", "r", "r", "o", "r">>

Str_MaxRetriesExceeded ==
  <<"M", "a", "x", "R", "e", "t", "r", "i", "e", "s", "E", "x", "c", "e", "e", "d", "e", "d">>

\* str(n) of a natural number.
RECURSIVE StrOfNat(_)
StrOfNat(n) ==
  IF n < 10 THEN <<Chr(48 + n)>> ELSE StrOfNat(n \div 10) \o <<Chr(48 + (n % 10))>>

NoUrl == <<>>

NoResponse == [url |-> <<>>, status_code |-> 0, history |-> <<>>]

NoError == <<>>

Free == 0

VARIABLES
  visited,      \* self.visited
  all_links,    \* self.all_links
  dead_links,   \* self.dead_links, a list of <<url, reason>>
  task_queue,   \* self.task_queue, the queued URLs, oldest first
  lock,         \* self.lock: Free, or the worker that holds it
  pc,           \* where each worker thread is
  current_url,  \* worker local: current_url
  attempt,      \* handle_request local: attempt
  response,     \* worker local: response
  error,        \* worker local: error
  exception,    \* handle_request local: e, what session.get raised last
  content,      \* worker local: content, as the set of hrefs the body holds
  links,        \* worker local: links
  runPc,        \* where run() is
  fetches,      \* history: how often handle_request was called, per URL
  failures,     \* history: how many requests met an exception of session.get
  urls,         \* normalize_url applied alone: its arguments
  normalized,   \* normalize_url(urls[i]), for the arguments done so far
  renormalized  \* normalize_url(normalized[i]), for the results done so far

\* The state of a run of the crawler, and of normalize_url applied alone.
crawlVars == <<visited, all_links, dead_links, task_queue, lock, pc, current_url,
               attempt, response, error, exception, content, links, runPc, fetches,
               failures>>

urlVars == <<urls, normalized, renormalized>>

vars == <<crawlVars, urlVars>>

\* self.start_url and self.base_domain, set by the constructor.
start_url == normalize_url(StartUrlArg)

base_domain == NetlocHost(start_url)

\* is_internal_link
is_internal_link(url) == NetlocHost(url) = base_domain

\* The loop body of extract_links for one href:
\* normalize_url(urljoin(base_url, unquote(link))).
ResolveLink(base_url, link) == normalize_url(urljoin(base_url, unquote(link)))

\* The least set of URLs that holds U and every link of RawLinks resolved
\* against one of its members.
RECURSIVE LinkClosure(_)
LinkClosure(U) ==
  Let2(U, U \cup {ResolveLink(b, l) : b \in U, l \in RawLinks}, LAMBDA old, more :
    IF more = old THEN old ELSE LinkClosure(more))

\* The URLs a run can meet, and ResolveLink tabulated over them (evaluated
\* once, so that a step need not split and join the same strings again).
PageUrls ==
  LinkClosure({start_url} \cup {normalize_url(t) : t \in RedirectTargets})

ResolvedLinks == [b \in PageUrls |-> [l \in RawLinks |-> ResolveLink(b, l)]]

\* encode_special_chars and normalize_url tabulated in the same way, over
\* the URLs a run requests and the URLs its responses carry.
EncodedUrls == [u \in PageUrls |-> encode_special_chars(u)]

NormalizedUrls ==
  [r \in RedirectTargets \cup {EncodedUrls[u] : u \in PageUrls} |-> normalize_url(r)]

\* encoded_url = self.encode_special_chars(url)
EncodedUrl(url) ==
  IF url \in DOMAIN EncodedUrls THEN EncodedUrls[url] ELSE encode_special_chars(url)

\* self.normalize_url(response.url)
FinalUrl(resp) ==
  IF resp.url \in DOMAIN NormalizedUrls
  THEN NormalizedUrls[resp.url] ELSE normalize_url(resp.url)

InternalUrls == {u \in PageUrls : is_internal_link(u)}

\* self.is_internal_link(normalized)
IsInternal(url) ==
  IF url \in PageUrls THEN url \in InternalUrls ELSE is_internal_link(url)

\* normalized, for one link of the loop of extract_links
Normalized(base_url, link) ==
  IF base_url \in PageUrls /\ link \in RawLinks
  THEN ResolvedLinks[base_url][link] ELSE ResolveLink(base_url, link)

\* extract_links with only the internal links dropped from the loop: every
\* normalized link is kept.
extract_links_unfiltered(hrefs, base_url) ==
  {Normalized(base_url, link) : link \in hrefs}

\* extract_links, from the set of hrefs the HTML or XML parser found in the
\* body: unquote, resolve against base_url, normalize, keep the internal ones.
extract_links(hrefs, base_url) ==
  {n \in {Normalized(base_url, link) : link \in hrefs} : IsInternal(n)}

\* __init__
CrawlInit ==
  /\ visited = {}
  /\ all_links = {}
  /\ dead_links = <<>>
  /\ task_queue = <<start_url>>
  /\ lock = Free
  /\ pc = [w \in Workers |-> "idle"]
  /\ current_url = [w \in Workers |-> NoUrl]
  /\ attempt = [w \in Workers |-> 0]
  /\ response = [w \in Workers |-> NoResponse]
  /\ error = [w \in Workers |-> NoError]
  /\ exception = [w \in Workers |-> "none"]
  /\ content = [w \in Workers |-> {}]
  /\ links = [w \in Workers |-> {}]
  /\ runPc = "submit"
  /\ fetches = [u \in {} |-> 0]
  /\ failures = 0

\* A run of the crawler: normalize_url is applied only inside it.
Init ==
  /\ CrawlInit
  /\ urls = <<>>
  /\ normalized = <<>>
  /\ renormalized = <<>>

(***************************************************************************)
(* The worker threads                                                      *)
(***************************************************************************)

\* The locals of a worker that is back at the head of its loop.
Forget(w) ==
  /\ current_url' = [current_url EXCEPT ![w] = NoUrl]
  /\ attempt' = [attempt EXCEPT ![w] = 0]
  /\ response' = [response EXCEPT ![w] = NoResponse]
  /\ error' = [error EXCEPT ![w] = NoError]
  /\ exception' = [exception EXCEPT ![w] = "none"]
  /\ content' = [content EXCEPT ![w] = {}]
  /\ links' = [links EXCEPT ![w] = {}]

\* The steps at which a worker stands before a `with self.lock:` block.
LockSteps == {"visit", "record_error", "redirect", "record_status", "update"}

\* `with self.lock:` entered: the lock is taken when it is free.
Acquire(w) ==
  /\ pc[w] \in LockSteps
  /\ lock = Free
  /\ lock' = w
  /\ UNCHANGED <<visited, all_links, dead_links, task_queue, pc, current_url,
                 attempt, response, error, exception, content, links, runPc, fetches, failures>>
  /\ UNCHANGED urlVars

\* task_queue.get(timeout=30) returns a URL.
Get(w) ==
  /\ pc[w] = "get"
  /\ task_queue # <<>>
  /\ current_url' = [current_url EXCEPT ![w] = Head(task_queue)]
  /\ task_queue' = Tail(task_queue)
  /\ pc' = [pc EXCEPT ![w] = "visit"]
  /\ UNCHANGED <<visited, all_links, dead_links, lock, attempt, response, error, exception,
                 content, links, runPc, fetches, failures>>
  /\ UNCHANGED urlVars

\* task_queue.get(timeout=30) raises queue.Empty: the queue stayed empty for
\* the whole wait.  The handler of the worker loop breaks.
GetTimeout(w) ==
  /\ pc[w] = "get"
  /\ task_queue = <<>>
  /\ pc' = [pc EXCEPT ![w] = "exited"]
  /\ UNCHANGED <<visited, all_links, dead_links, task_queue, lock, current_url,
                 attempt, response, error, exception, content, links, runPc, fetches, failures>>
  /\ UNCHANGED urlVars

\* The same block without the test of `current_url in self.visited`: every
\* dequeued URL is claimed and requested.
CheckVisited_unchecked(w) ==
  /\ pc[w] = "visit"
  /\ lock = w
  /\ lock' = Free
  /\ visited' = visited \cup {current_url[w]}
  /\ pc' = [pc EXCEPT ![w] = "request"]
  /\ fetches' = [u \in DOMAIN fetches \cup {current_url[w]} |->
                   IF u = current_url[w]
                   THEN (IF u \in DOMAIN fetches THEN fetches[u] ELSE 0) + 1
                   ELSE fetches[u]]
  /\ UNCHANGED <<current_url, attempt, response, error, exception, content, links>>
  /\ UNCHANGED <<all_links, dead_links, task_queue, runPc, failures>>
  /\ UNCHANGED urlVars

\* The block under the lock that claims current_url: a visited URL is
\* dropped (task_done, continue), any other is added to visited and the
\* worker goes on to handle_request.
CheckVisited(w) ==
  /\ pc[w] = "visit"
  /\ lock = w
  /\ lock' = Free
  /\ IF current_url[w] \in visited
     THEN /\ pc' = [pc EXCEPT ![w] = "get"]
          /\ Forget(w)
          /\ UNCHANGED <<visited, fetches>>
     ELSE /\ visited' = visited \cup {current_url[w]}
          /\ pc' = [pc EXCEPT ![w] = "request"]
          /\ fetches' = [u \in DOMAIN fetches \cup {current_url[w]} |->
                           IF u = current_url[w]
                           THEN (IF u \in DOMAIN fetches THEN fetches[u] ELSE 0) + 1
                           ELSE fetches[u]]
          /\ UNCHANGED <<current_url, attempt, response, error, exception, content, links>>
  /\ UNCHANGED <<all_links, dead_links, task_queue, runPc, failures>>
  /\ UNCHANGED urlVars

\* The responses session.get may return for encoded_url: the page itself, or
\* the end of a redirect chain, with any final status.
Responses(encoded_url) ==
  [url : {encoded_url}, status_code : StatusCodes, history : {<<>>}]
  \cup [url : RedirectTargets, status_code : StatusCodes, history : RedirectHistories]

\* The step of the worker after handle_request returned <<resp, err>>: an
\* error is recorded; a final URL other than current_url is queued; a status
\* of 400 or more is recorded; the content is read otherwise.
AfterRequest(url, resp, err) ==
  IF err # NoError THEN "record_error"
  ELSE IF FinalUrl(resp) # url THEN "redirect"
  ELSE IF resp.status_code >= 400 THEN "record_status"
  ELSE "content"

\* handle_request returns <<resp, err>> to the worker.
Return(w, resp, err) ==
  /\ response' = [response EXCEPT ![w] = resp]
  /\ error' = [error EXCEPT ![w] = err]
  /\ pc' = [pc EXCEPT ![w] = AfterRequest(current_url[w], resp, err)]
  /\ UNCHANGED attempt

\* The same attempt with the SSLError clause falling through to the next
\* turn of the retry loop, as the Timeout clause does.
Attempt_ssl_retried(w, exc, resp) ==
  IF attempt[w] > retries
  THEN Return(w, NoResponse, <<Str_MaxRetriesExceeded, <<>>>>)
  ELSE CASE exc = "none" -> Return(w, resp, NoError)
         [] exc \in {"SSLError", "Timeout"} ->
              IF attempt[w] = retries
              THEN Return(w, NoResponse,
                          <<IF exc = "Timeout" THEN Str_Timeout ELSE Str_SSL_Error,
                            ExcMessage>>)
              ELSE /\ attempt' = [attempt EXCEPT ![w] = attempt[w] + 1]
                   /\ UNCHANGED <<pc, response, error>>
         [] exc = "TooManyRedirects" ->
              Return(w, NoResponse, <<Str_TooManyRedirects, ExcMessage>>)
         [] OTHER -> Return(w, NoResponse, <<Str_ConnectionError, ExcMessage>>)

\* One attempt of handle_request: session.get answers, or raises exc.
\* A Timeout before the last attempt sleeps (time.sleep(1)) and the loop goes
\* on to the next attempt; every other exception, and the Timeout of the
\* last attempt, ends the request.
Attempt(w, exc, resp) ==
  IF attempt[w] > retries
  THEN Return(w, NoResponse, <<Str_MaxRetriesExceeded, <<>>>>)
  ELSE CASE exc = "none" -> Return(w, resp, NoError)
         [] exc = "SSLError" -> Return(w, NoResponse, <<Str_SSL_Error, ExcMessage>>)
         [] exc = "Timeout" ->
              IF attempt[w] = retries
              THEN Return(w, NoResponse, <<Str_Timeout, ExcMessage>>)
              ELSE /\ attempt' = [attempt EXCEPT ![w] = attempt[w] + 1]
                   /\ UNCHANGED <<pc, response, error>>
         [] exc = "TooManyRedirects" ->
              Return(w, NoResponse, <<Str_TooManyRedirects, ExcMessage>>)
         [] OTHER -> Return(w, NoResponse, <<Str_ConnectionError, ExcMessage>>)

\* handle_request(current_url): the next attempt of the retry loop.
Request(w) ==
  /\ pc[w] = "request"
  /\ \E exc \in RequestErrors \cup {"none"} :
       \E resp \in IF exc = "none"
                   THEN Responses(EncodedUrl(current_url[w]))
                   ELSE {NoResponse} :
         /\ exc # "none" => attempt[w] > 0 \/ failures < MaxFailures
         /\ failures' = IF exc # "none" /\ attempt[w] = 0
                        THEN failures + 1 ELSE failures
         /\ exception' = [exception EXCEPT ![w] = exc]
         /\ Attempt(w, exc, resp)
  /\ UNCHANGED <<visited, all_links, dead_links, task_queue, lock, current_url,
                 content, links, runPc, fetches>>
  /\ UNCHANGED urlVars

\* f"{error[0]} - {error[1]}"
ErrorReason(err) == err[1] \o <<" ", "-", " ">> \o err[2]

\* The same append made outside a `with self.lock:` block.
RecordError_unlocked(w) ==
  /\ pc[w] = "record_error"
  /\ dead_links' = Append(dead_links, <<current_url[w], ErrorReason(error[w])>>)
  /\ pc' = [pc EXCEPT ![w] = "get"]
  /\ Forget(w)
  /\ UNCHANGED <<visited, all_links, task_queue, lock, runPc, fetches, failures>>
  /\ UNCHANGED urlVars

\* The block under the lock that records a failed request; then continue.
RecordError(w) ==
  /\ pc[w] = "record_error"
  /\ lock = w
  /\ lock' = Free
  /\ dead_links' = Append(dead_links, <<current_url[w], ErrorReason(error[w])>>)
  /\ pc' = [pc EXCEPT ![w] = "get"]
  /\ Forget(w)
  /\ UNCHANGED <<visited, all_links, task_queue, runPc, fetches, failures>>
  /\ UNCHANGED urlVars

\* final_url = self.normalize_url(response.url)
final_url(w) == FinalUrl(response[w])

\* The same block followed by no test of response.status_code: the worker
\* goes on to read the content whatever the status.
QueueRedirect_unchecked(w) ==
  /\ pc[w] = "redirect"
  /\ lock = w
  /\ lock' = Free
  /\ IF final_url(w) \notin visited
     THEN task_queue' = Append(task_queue, final_url(w))
     ELSE UNCHANGED task_queue
  /\ pc' = [pc EXCEPT ![w] = "content"]
  /\ UNCHANGED <<visited, all_links, dead_links, current_url, attempt, response,
                 error, exception, content, links, runPc, fetches, failures>>
  /\ UNCHANGED urlVars

\* The block under the lock that queues the final URL of a redirect unless
\* it is visited; then the status check.
QueueRedirect(w) ==
  /\ pc[w] = "redirect"
  /\ lock = w
  /\ lock' = Free
  /\ IF final_url(w) \notin visited
     THEN task_queue' = Append(task_queue, final_url(w))
     ELSE UNCHANGED task_queue
  /\ pc' = [pc EXCEPT ![w] =
              IF response[w].status_code >= 400 THEN "record_status" ELSE "content"]
  /\ UNCHANGED <<visited, all_links, dead_links, current_url, attempt, response,
                 error, exception, content, links, runPc, fetches, failures>>
  /\ UNCHANGED urlVars

\* f"HTTP {response.status_code}"
StatusReason(status_code) == <<"H", "T", "T", "P", " ">> \o StrOfNat(status_code)

\* The same block with final_url in the record where the code has current_url.
RecordStatus_final_url(w) ==
  /\ pc[w] = "record_status"
  /\ lock = w
  /\ lock' = Free
  /\ dead_links' = Append(dead_links,
                          <<final_url(w), StatusReason(response[w].status_code)>>)
  /\ pc' = [pc EXCEPT ![w] = "get"]
  /\ Forget(w)
  /\ UNCHANGED <<visited, all_links, task_queue, runPc, fetches, failures>>
  /\ UNCHANGED urlVars

\* The block under the lock that records a status of 400 or more; then continue.
RecordStatus(w) ==
  /\ pc[w] = "record_status"
  /\ lock = w
  /\ lock' = Free
  /\ dead_links' = Append(dead_links,
                          <<current_url[w], StatusReason(response[w].status_code)>>)
  /\ pc' = [pc EXCEPT ![w] = "get"]
  /\ Forget(w)
  /\ UNCHANGED <<visited, all_links, task_queue, runPc, fetches, failures>>
  /\ UNCHANGED urlVars

\* How reading and parsing the body may end: the parser finds hrefs; decoding
\* raises UnicodeDecodeError (caught: no links); or another exception is
\* raised, which only the handler of the worker loop catches.
ContentResults == {"parsed", "UnicodeDecodeError", "raised"}

\* response.content / response.text and extract_links.  A raised exception
\* ends the thread, and its locals with it.
Content(w) ==
  /\ pc[w] = "content"
  /\ \E result \in ContentResults :
       \E hrefs \in IF result = "parsed" THEN Bodies ELSE {{}} :
         /\ content' = [content EXCEPT ![w] = hrefs]
         /\ links' = [links EXCEPT ![w] =
                        IF result = "parsed"
                        THEN extract_links(hrefs, final_url(w)) ELSE {}]
         /\ pc' = [pc EXCEPT ![w] = IF result = "raised" THEN "exited" ELSE "update"]
         /\ current_url' = [current_url EXCEPT ![w] =
                              IF result = "raised" THEN NoUrl ELSE current_url[w]]
         /\ response' = [response EXCEPT ![w] =
                           IF result = "raised" THEN NoResponse ELSE response[w]]
  /\ attempt' = [attempt EXCEPT ![w] = 0]
  /\ UNCHANGED <<visited, all_links, dead_links, task_queue, lock, error, exception, runPc,
                 fetches, failures>>
  /\ UNCHANGED urlVars

\* The sequences that hold each element of the set S once: the orders in
\* which `for link in new_links` may visit a set.
Orders(S) ==
  {q \in [1..Cardinality(S) -> S] : \A i, j \in 1..Cardinality(S) : q[i] = q[j] => i = j}

\* The same block with a loop that puts only the new links not in visited.
QueueUpdate_unvisited(w) ==
  /\ pc[w] = "update"
  /\ lock = w
  /\ lock' = Free
  /\ LET new_links == links[w] \ all_links
     IN  /\ all_links' = all_links \cup new_links
         /\ \E order \in Orders(new_links \ visited) : task_queue' = task_queue \o order
  /\ pc' = [pc EXCEPT ![w] = "get"]
  /\ Forget(w)
  /\ UNCHANGED <<visited, dead_links, runPc, fetches, failures>>
  /\ UNCHANGED urlVars

\* The block under the lock that queues the links not yet in all_links;
\* then time.sleep(0.5) and the next turn of the loop.
QueueUpdate(w) ==
  /\ pc[w] = "update"
  /\ lock = w
  /\ lock' = Free
  /\ LET new_links == links[w] \ all_links
     IN  /\ all_links' = all_links \cup new_links
         /\ \E order \in Orders(new_links) : task_queue' = task_queue \o order
  /\ pc' = [pc EXCEPT ![w] = "get"]
  /\ Forget(w)
  /\ UNCHANGED <<visited, dead_links, runPc, fetches, failures>>
  /\ UNCHANGED urlVars

(***************************************************************************)
(* run()                                                                   *)
(***************************************************************************)

\* executor.submit(self.worker), once per worker, in order.
Submit(w) ==
  /\ runPc = "submit"
  /\ pc[w] = "idle"
  /\ \A v \in Workers : v < w => pc[v] # "idle"
  /\ pc' = [pc EXCEPT ![w] = "get"]
  /\ runPc' = IF w = NumWorkers THEN "poll" ELSE "submit"
  /\ UNCHANGED <<visited, all_links, dead_links, task_queue, lock, current_url,
                 attempt, response, error, exception, content, links, fetches, failures>>
  /\ UNCHANGED urlVars

\* while not self.task_queue.empty(): time.sleep(1)
Poll ==
  /\ runPc = "poll"
  /\ runPc' = IF task_queue = <<>> THEN "shutdown" ELSE "poll"
  /\ UNCHANGED <<visited, all_links, dead_links, task_queue, lock, pc, current_url,
                 attempt, response, error, exception, content, links, fetches, failures>>
  /\ UNCHANGED urlVars

\* executor.shutdown(wait=True) returns once every worker has left its loop;
\* run() then returns self.dead_links.
Shutdown ==
  /\ runPc = "shutdown"
  /\ \A w \in Workers : pc[w] = "exited"
  /\ runPc' = "returned"
  /\ UNCHANGED <<visited, all_links, dead_links, task_queue, lock, pc, current_url,
                 attempt, response, error, exception, content, links, fetches, failures>>
  /\ UNCHANGED urlVars

WorkerStep(w) ==
  \/ Acquire(w)
  \/ Get(w)
  \/ GetTimeout(w)
  \/ CheckVisited(w)
  \/ Request(w)
  \/ RecordError(w)
  \/ QueueRedirect(w)
  \/ RecordStatus(w)
  \/ Content(w)
  \/ QueueUpdate(w)

Next ==
  \/ \E w \in Workers : Submit(w)
  \/ Poll
  \/ Shutdown
  \/ \E w \in Workers : WorkerStep(w)

Spec == Init /\ [][Next]_vars

\* Every thread that can take a step eventually takes one: the worker
\* threads and the thread of run() are scheduled by the operating system, a
\* request ends by its timeout at the latest, and so does a wait on the queue.
FairSpec ==
  /\ Spec
  /\ WF_vars(Poll)
  /\ WF_vars(Shutdown)
  /\ \A w \in Workers : WF_vars(Submit(w)) /\ WF_vars(WorkerStep(w))

(***************************************************************************)
(* normalize_url applied alone                                             *)
(***************************************************************************)

Https == <<"h", "t", "t", "p", "s", ":", "/", "/">>

example_com == <<"e", "x", "a", "m", "p", "l", "e", ".", "c", "o", "m">>

Example_com == <<"E", "x", "a", "m", "p", "l", "e", ".", "c", "o", "m">>

\* The arguments normalize_url is applied to: https://Example.com/a/,
\* https://example.com/a, https://example.com/a?, HTTPS://example.com/a,
\* https://example.com/a?q=A, ...?q=a, ...?q=b, https://example.com/a%2F,
\* https://example.com/%2523 and https://example.com/a?q=%2523.
UrlInputs ==
  {
    Https \o Example_com \o <<"/", "a", "/">>,
    Https \o example_com \o <<"/", "a">>,
    Https \o example_com \o <<"/", "a", "?">>,
    <<"H", "T", "T", "P", "S", ":", "/", "/">> \o example_com \o <<"/", "a">>,
    Https \o example_com \o <<"/", "a", "?", "q", "=", "A">>,
    Https \o example_com \o <<"/", "a", "?", "q", "=", "a">>,
    Https \o example_com \o <<"/", "a", "?", "q", "=", "b">>,
    Https \o example_com \o <<"/", "a", "%", "2", "F">>,
    Https \o example_com \o <<"/", "%", "2", "5", "2", "3">>,
    Https \o example_com \o <<"/", "a", "?", "q", "=", "%", "2", "5", "2", "3">> }

\* normalize_url tabulated over UrlInputs, and over its results there
\* (evaluated once each).
Canonical == [u \in UrlInputs |-> normalize_url(u)]

Recanonical == [c \in {Canonical[u] : u \in UrlInputs} |-> normalize_url(c)]

\* normalize_url(url)
Canonicalized(url) ==
  IF url \in DOMAIN Canonical THEN Canonical[url]
  ELSE IF url \in DOMAIN Recanonical THEN Recanonical[url]
  ELSE normalize_url(url)

\* Two arguments are chosen; no crawl runs.
UrlInit ==
  /\ CrawlInit
  /\ urls \in UrlInputs \X UrlInputs
  /\ normalized = <<>>
  /\ renormalized = <<>>

\* normalize_url(urls[i])
Normalize(i) ==
  /\ i \in DOMAIN urls
  /\ i \notin DOMAIN normalized
  /\ normalized' = normalized @@ (i :> Canonicalized(urls[i]))
  /\ UNCHANGED <<crawlVars, urls, renormalized>>

\* normalize_url(normalize_url(urls[i]))
Renormalize(i) ==
  /\ i \in DOMAIN normalized
  /\ i \notin DOMAIN renormalized
  /\ renormalized' = renormalized @@ (i :> Canonicalized(normalized[i]))
  /\ UNCHANGED <<crawlVars, urls, normalized>>

UrlNext ==
  \/ \E i \in 1..2 : Normalize(i)
  \/ \E i \in 1..2 : Renormalize(i)

UrlSpec == UrlInit /\ [][UrlNext]_vars

(***************************************************************************)
(* Properties                                                              *)
(***************************************************************************)

\* The elements of a sequence.
Range(s) == {s[i] : i \in 1..Len(s)}

\* The positions of the records of url in a list of dead links.
RecordsOf(records, url) == {i \in 1..Len(records) : records[i][1] = url}

\* The positions of a worker between the insert into visited and the end of
\* the turn of its loop: the worker has dispatched current_url.
Dispatched == {"request", "record_error", "redirect", "record_status", "content", "update"}

\* A step in which worker w ends a turn of its loop normally.
EndsTurn(w) == pc[w] \in {"record_error", "record_status", "update"} /\ pc'[w] = "get"

\* What the step of worker w put on the queue.
Put == SubSeq(task_queue', Len(task_queue) + 1, Len(task_queue'))

\* C1: at-most-once dispatch.  No URL is passed to handle_request more than
\* once in a run, and no two workers are ever past the claim of the same
\* URL: the test of visited and the insert are one step under the lock, so
\* of two workers that dequeued the same URL at most one dispatches it.
AtMostOnceDispatch ==
  /\ \A u \in DOMAIN fetches : fetches[u] <= 1
  /\ \A w, v \in Workers :
       (w # v /\ pc[w] \in Dispatched /\ pc[v] \in Dispatched)
         => current_url[w] # current_url[v]

\* Two workers dequeued the same URL: one has dispatched it and is in
\* handle_request, the other holds the lock and is about to test visited.
SameUrlDequeuedTwice ==
  \E w, v \in Workers :
    /\ pc[w] = "request"
    /\ pc[v] = "visit"
    /\ lock = v
    /\ current_url[v] = current_url[w]

\* Every URL the run has discovered, the seed and every body link recorded
\* in all_links, has been passed to handle_request exactly once.
AllDispatchedOnce ==
  \A u \in all_links \cup {start_url} : u \in DOMAIN fetches /\ fetches[u] = 1

\* The run has stayed in scope: every URL it has queued, dequeued or
\* visited is internal, so that the link graph it walks is an in-scope one.
InScopeRun ==
  \A u \in visited \cup Range(task_queue) \cup {current_url[w] : w \in Workers} :
    u # NoUrl => IsInternal(u)

\* C2: cycle and finite-graph termination.  A run over an in-scope link
\* graph eventually returns, and when it has returned every URL reachable
\* from the seed has been dispatched exactly once.
CrawlTerminatesComplete ==
  /\ [][(runPc' = "returned" /\ InScopeRun') => AllDispatchedOnce']_vars
  /\ <>(runPc = "returned" \/ ~InScopeRun)

\* C3: the run always completes.  Under fair scheduling run() eventually
\* returns, also when the processing of a URL raised an exception in a
\* worker while other URLs were pending.
RunCompletes == <>(runPc = "returned")

\* C4: termination condition.  When run() has returned the task queue is
\* empty and no worker holds a job in flight.
ReturnsDrained ==
  runPc = "returned" =>
    /\ task_queue = <<>>
    /\ \A w \in Workers : pc[w] = "exited" /\ current_url[w] = NoUrl

\* C5: every link extract_links returned for a fetched page is put on the
\* queue before run() returns.  The queue-update step leaves each link of
\* links in all_links and puts each link it adds to all_links on the
\* queue; all_links grows in no other step; and run() does not return
\* while a worker has a queue-update step ahead of it.
DiscoveredLinksEnqueued ==
  [][/\ all_links' # all_links =>
          \E w \in Workers : pc[w] = "update" /\ pc'[w] = "get"
     /\ \A w \in Workers :
          (pc[w] = "update" /\ pc'[w] = "get") =>
            /\ links[w] \subseteq all_links'
            /\ all_links' \ all_links \subseteq Range(Put)
     /\ runPc' = "returned" => \A w \in Workers : pc'[w] = "exited"]_vars

\* A queue-update step has just put both links of a page on the queue.
LinksJustEnqueued ==
  /\ Cardinality(all_links) = 2
  /\ all_links \subseteq Range(task_queue)
  /\ \E w \in Workers : pc[w] = "get" /\ visited = {start_url}

\* C6: scope filtering.  extract_links returns only URLs for which
\* is_internal_link is true, and the queue-update step puts no link of the
\* body on the queue whose host differs from base_domain.
ScopeFiltering ==
  [][\A w \in Workers :
       /\ \A l \in links'[w] : IsInternal(l)
       /\ (pc[w] = "update" /\ pc'[w] = "get") =>
            /\ \A l \in Range(Put) : IsInternal(l)
            /\ \A h \in content[w] :
                 ~IsInternal(Normalized(final_url(w), h))
                   => Normalized(final_url(w), h) \notin Range(Put)]_vars

\* A worker has extracted the links of a body that holds a cross-host href
\* beside internal ones, and is about to update the queue.
CrossHostLinkInBody ==
  \E w \in Workers :
    /\ pc[w] = "update"
    /\ links[w] # {}
    /\ \E h \in content[w] : ~IsInternal(Normalized(final_url(w), h))

\* C7: the result holds no duplicate URL: dead_links has at most one record
\* per URL.
NoDuplicateDeadLinks ==
  \A i, j \in 1..Len(dead_links) : dead_links[i][1] = dead_links[j][1] => i = j

\* Two URLs are recorded dead, and a worker has dequeued a further copy of
\* one of them.
DeadUrlDequeuedAgain ==
  /\ Len(dead_links) = 2
  /\ \E w \in Workers :
       pc[w] = "visit" /\ RecordsOf(dead_links, current_url[w]) # {}

\* C8: one failing URL never aborts the run.  A worker leaves its loop only
\* when its wait on the empty queue times out: an exception raised while a
\* dequeued URL is processed leaves the worker in its loop.
WorkerSurvivesException ==
  [][\A w \in Workers :
       (pc[w] # "exited" /\ pc'[w] = "exited") => pc[w] = "get" /\ task_queue = <<>>]_vars

\* The failure kinds handle_request reports.
FailureKinds ==
  {Str_SSL_Error, Str_Timeout, Str_TooManyRedirects, Str_ConnectionError}

\* C9: classification rules 1, 2 and 5.  When handle_request returns, the
\* URL has no record yet.  At the end of the turn of the loop: a transport
\* failure has appended exactly one record, tagged with the failure kind; a
\* final status of 400 or more has appended exactly one record "HTTP <code>"
\* ("HTTP 404" for 404); any other response, a distinct page reached by
\* 301 then 200 among them, has appended none.  A response of status 400 or
\* more never reaches the reading of the content.
Classification ==
  [][\A w \in Workers :
       LET url == current_url[w]
       IN  /\ (pc[w] = "request" /\ pc'[w] # "request") =>
                RecordsOf(dead_links', url) = {}
           /\ pc'[w] = "content" =>
                error'[w] = NoError /\ response'[w].status_code < 400
           /\ EndsTurn(w) =>
                IF error[w] # NoError
                THEN /\ error[w][1] \in FailureKinds
                     /\ dead_links' =
                          Append(dead_links,
                                 <<url, error[w][1] \o <<" ", "-", " ">> \o error[w][2]>>)
                     /\ Cardinality(RecordsOf(dead_links', url)) = 1
                ELSE IF response[w].status_code >= 400
                THEN /\ dead_links' =
                          Append(dead_links,
                                 <<url, <<"H", "T", "T", "P", " ">>
                                          \o StrOfNat(response[w].status_code)>>)
                     /\ response[w].status_code = 404 =>
                          dead_links'[Len(dead_links')][2]
                            = <<"H", "T", "T", "P", " ", "4", "0", "4">>
                     /\ Cardinality(RecordsOf(dead_links', url)) = 1
                ELSE /\ dead_links' = dead_links
                     /\ RecordsOf(dead_links', url) = {}]_vars

\* A worker reads the content of a distinct page it reached by 301 then
\* 200, while another URL is recorded dead with "HTTP 404".
AliveAfterRedirect ==
  /\ \E w \in Workers :
       /\ pc[w] = "content"
       /\ response[w].history = <<301>>
       /\ response[w].status_code = 200
       /\ final_url(w) # current_url[w]
       /\ RecordsOf(dead_links, current_url[w]) = {}
  /\ \E i \in 1..Len(dead_links) :
       dead_links[i][2] = <<"H", "T", "T", "P", " ", "4", "0", "4">>

\* The reason of classification rule 3.
Str_redirect_chain_error ==
  <<"r", "e", "d", "i", "r", "e", "c", "t", "-", "c", "h", "a", "i", "n", "-",
    "e", "r", "r", "o", "r">>

Str_soft_404 == <<"s", "o", "f", "t", "-", "4", "0", "4">>

\* C11: classification rule 4 (soft-404).  A worker that ends its turn on a
\* URL other than the homepage, whose response ended after redirects at the
\* homepage URL with a success status, has recorded the URL dead with
\* soft-404 when the body is at least 0.8 similar to the homepage.  No line
\* of the code measures the similarity of a body, so it is a free input
\* here, counted in tenths.
SoftNotFound ==
  [][\A w \in Workers : \A similarity \in 0..10 :
       (/\ EndsTurn(w)
        /\ error[w] = NoError
        /\ response[w].status_code < 400
        /\ response[w].history # <<>>
        /\ current_url[w] # start_url
        /\ final_url(w) = start_url
        /\ similarity >= 8)
         => <<current_url[w], Str_soft_404>> \in Range(dead_links')]_vars

\* A step in which worker w makes an attempt of handle_request: the attempt
\* ends the request or is counted.
MakesAttempt(w) ==
  pc[w] = "request" /\ (pc'[w] # "request" \/ attempt'[w] # attempt[w])

\* A step in which handle_request returns a failure to worker w.
ReturnsFailure(w) == pc[w] = "request" /\ pc'[w] = "record_error"

\* C12: retryable failures.  An attempt that meets a Timeout or a
\* ConnectionError before the last attempt is followed by another attempt,
\* so that handle_request reports one of the two only after retries + 1
\* attempts; an attempt that succeeds after such failures returns the
\* response and no failure.
RetryableRetried ==
  [][\A w \in Workers :
       /\ (MakesAttempt(w) /\ exception'[w] \in {"Timeout", "ConnectionError"}) =>
            IF attempt[w] < retries
            THEN pc'[w] = "request" /\ attempt'[w] = attempt[w] + 1
            ELSE ReturnsFailure(w)
       /\ (MakesAttempt(w) /\ exception'[w] = "none") =>
            error'[w] = NoError /\ response'[w] # NoResponse /\ ~ReturnsFailure(w)]_vars

\* C13: terminal failures.  An attempt that meets an SSL error or
\* TooManyRedirects ends the request at once with that failure kind,
\* whichever attempt it is; a failed request is not attempted again; and no
\* request makes more than retries + 1 attempts.
TerminalNotRetried ==
  [][\A w \in Workers :
       /\ (MakesAttempt(w) /\ exception'[w] \in {"SSLError", "TooManyRedirects"}) =>
            /\ ReturnsFailure(w)
            /\ attempt'[w] = attempt[w]
            /\ error'[w][1] = IF exception'[w] = "SSLError"
                              THEN Str_SSL_Error ELSE Str_TooManyRedirects
       /\ pc[w] = "record_error" => pc'[w] \in {"record_error", "get"}
       /\ attempt'[w] <= retries
       /\ (MakesAttempt(w) /\ attempt[w] = retries) => pc'[w] # "request"]_vars

\* handle_request has returned an SSL error that its second attempt met,
\* after a Timeout of the first.
SslErrorOnSecondAttempt ==
  \E w \in Workers :
    pc[w] = "record_error" /\ exception[w] = "SSLError" /\ attempt[w] = 1

\* C14: exhausted retries yield MaxRetriesExceeded.  When the last of the
\* retries + 1 attempts meets a retryable failure, every earlier attempt
\* having met one, the failure kind handle_request returns is
\* MaxRetriesExceeded.
ExhaustedRetries ==
  [][\A w \in Workers :
       (/\ MakesAttempt(w)
        /\ attempt[w] = retries
        /\ exception'[w] \in {"Timeout", "ConnectionError"})
         => ReturnsFailure(w) /\ error'[w][1] = Str_MaxRetriesExceeded]_vars

\* C15: a URL is put on the queue only if it is absent from visited at the
\* moment of the put, and the put is made by the holder of the lock; for
\* the links of a page body as for the final URL of a redirect.
PutOnlyUnvisited ==
  [][Put # <<>> =>
       /\ \A u \in Range(Put) : u \notin visited
       /\ \E w \in Workers : lock = w /\ pc[w] \in {"redirect", "update"}]_vars

\* C18: every URL that is on the queue or has been dispatched to
\* handle_request has the host base_domain, the final URL of a redirect
\* included.
QueuedUrlsInScope ==
  \A u \in Range(task_queue) \cup DOMAIN fetches : IsInternal(u)

\* The positions of a worker that holds a job in flight: it has dequeued a
\* URL and not yet ended the turn of its loop.
InFlight == Dispatched \cup {"visit"}

\* C19: a worker leaves its loop on the empty-queue timeout only when no
\* other worker holds a job in flight.
TimeoutOnlyWhenIdle ==
  [][\A w \in Workers :
       (pc[w] = "get" /\ pc'[w] = "exited") =>
         \A v \in Workers : pc[v] \notin InFlight]_vars

\* A worker has left its loop while another, which holds the only URL
\* dispatched so far (so that no exception can have ended the first), is
\* about to put new links on the queue.
ExitedWhileLinksPending ==
  \E w, v \in Workers :
    /\ pc[w] = "exited"
    /\ pc[v] = "update"
    /\ visited = {current_url[v]}
    /\ links[v] \ all_links # {}

\* C20: lock discipline and deadlock freedom.  The holder of the lock is
\* inside one of the locked blocks, never in task_queue.get, in
\* handle_request, in the reading of a body or in a sleep; a worker passes
\* a block that reads or writes visited, all_links or dead_links, and these
\* change, only in a step of the holder; and a worker that waits for the
\* lock eventually holds it.
LockDiscipline ==
  /\ [][/\ \A w \in Workers : lock' = w => pc'[w] \in LockSteps
        /\ \A w \in Workers : (pc[w] \in LockSteps /\ pc'[w] # pc[w]) => lock = w
        /\ (visited' # visited \/ all_links' # all_links \/ dead_links' # dead_links)
             => \E w \in Workers : lock = w /\ pc'[w] # pc[w]]_vars
  /\ \A w \in Workers : (pc[w] \in LockSteps /\ lock # w) ~> (lock = w)

\* A worker waits for the lock while another worker holds it.
WaitsForLock ==
  \E w, v \in Workers : w # v /\ lock = v /\ pc[w] \in LockSteps /\ pc[v] \in LockSteps

\* C16: canonicalization is idempotent: normalize_url applied to a result
\* of normalize_url returns it unchanged, also for a URL with an escaped
\* percent sign, slash or number sign.
Idempotent ==
  \A i \in DOMAIN renormalized : renormalized[i] = normalized[i]

\* The components of each argument, as urlsplit gives them.
Parts == [u \in UrlInputs |-> urlsplit(u)]

\* Two URLs differ at most in the case of the scheme and of the host, in
\* trailing slashes of the path and in an empty query marker.
SameButForm(u, v) ==
  /\ Lower(Parts[u].scheme) = Lower(Parts[v].scheme)
  /\ Lower(Parts[u].netloc) = Lower(Parts[v].netloc)
  /\ RStrip(Parts[u].path, "/") = RStrip(Parts[v].path, "/")
  /\ Parts[u].query = Parts[v].query
  /\ Parts[u].fragment = Parts[v].fragment

\* Both arguments have been normalized.
BothNormalized == DOMAIN normalized = {1, 2}

\* The first half of C17 alone: URLs that differ only in form normalize to
\* the same string.
SameFormSameCanonical ==
  BothNormalized =>
    (SameButForm(urls[1], urls[2]) => normalized[1] = normalized[2])

\* C17: canonical equivalence.  URLs that differ only in the case of the
\* scheme and host, in a trailing slash or in an empty query marker
\* normalize to the same string, and URLs whose queries differ, be it only
\* in letter case, normalize to different strings.
CanonicalEquivalence ==
  BothNormalized =>
    /\ SameButForm(urls[1], urls[2]) => normalized[1] = normalized[2]
    /\ Parts[urls[1]].query # Parts[urls[2]].query => normalized[1] # normalized[2]
====
